---- MODULE Spec2Model ----
(***************************************************************************)
(* Model of the personal resume agent: the resume RAG system               *)
(* (src/src/resume_rag.py), the agent facade                               *)
(* (src/src/personal_resume_agent.py) and the stdio protocol server        *)
(* (src/src/mcp_resume_server.py).                                         *)
(*                                                                         *)
(* Strings that the code inspects character by character (file names,      *)
(* chunk ids, queries, chunks) are sequences of one-character strings.  A   *)
(* file's text is kept as the sequence of its whitespace-separated words,  *)
(* which is what content.split() yields.                                   *)
(***************************************************************************)
EXTENDS Integers, Sequences, FiniteSets, TLC

\* ------------------------------------------------------------------ bounds
\* Number of steps that change the index or the data directory: ingestion
\* runs, and files the user writes or removes.
MaxSteps == 3
\* Window of _split_into_chunks as called by _process_resume_file (the
\* default, 500 words), scaled down so that small texts span several chunks.
DefaultChunkSize == 2

\* ------------------------------------------------------- character strings
UpperChars == <<"A","B","C","D","E","F","G","H","I","J","K","L","M",
                "N","O","P","Q","R","S","T","U","V","W","X","Y","Z">>
LowerChars == <<"a","b","c","d","e","f","g","h","i","j","k","l","m",
                "n","o","p","q","r","s","t","u","v","w","x","y","z">>

\* str.lower() on one character
LowerChar(c) ==
  IF \E k \in 1..26 : UpperChars[k] = c
  THEN LowerChars[CHOOSE k \in 1..26 : UpperChars[k] = c]
  ELSE c

\* str.lower()
Lower(s) == [k \in 1..Len(s) |-> LowerChar(s[k])]

\* str.endswith(suffix)
EndsWith(s, suffix) ==
  /\ Len(suffix) <= Len(s)
  /\ SubSeq(s, Len(s) - Len(suffix) + 1, Len(s)) = suffix

\* the `in` operator on strings: sub occurs in s
Contains(s, sub) ==
  \E k \in 1..(Len(s) - Len(sub) + 1) : SubSeq(s, k, k + Len(sub) - 1) = sub

\* sep.join(parts)
RECURSIVE Join(_, _)
Join(parts, sep) ==
  IF parts = << >> THEN << >>
  ELSE IF Len(parts) = 1 THEN parts[1]
  ELSE parts[1] \o sep \o Join(Tail(parts), sep)

IsSpace(c) == c \in {" ", "\n", "\t"}

\* str.split(): the maximal runs of non-whitespace characters, in order
RECURSIVE Split(_)
Split(s) ==
  IF s = << >> THEN << >>
  ELSE IF IsSpace(s[1]) THEN Split(Tail(s))
  ELSE LET stops == {k \in 1..Len(s) : IsSpace(s[k])}
           stop  == IF stops = {} THEN Len(s) + 1
                    ELSE CHOOSE k \in stops : \A j \in stops : k <= j
       IN  <<SubSeq(s, 1, stop - 1)>> \o Split(SubSeq(s, stop, Len(s)))

\* s[:n]
Prefix(s, n) == SubSeq(s, 1, IF n < Len(s) THEN n ELSE Len(s))

DigitChars == <<"0","1","2","3","4","5","6","7","8","9">>

\* str(i) for a natural number, as the f-string of doc_id formats it
RECURSIVE IntToStr(_)
IntToStr(i) ==
  IF i < 10 THEN <<DigitChars[i + 1]>>
  ELSE IntToStr(i \div 10) \o <<DigitChars[(i % 10) + 1]>>

\* -------------------------------------------------------- the data directory
NameCv     == <<"c","v",".","m","d">>
NameResume == <<"R","e","s","u","m","e",".","T","X","T">>
NameNotes  == <<"a",".","t","x","t">>
NamePhoto  == <<"c","v",".","p","n","g">>
FileNames  == {NameCv, NameResume, NameNotes, NamePhoto}

\* os.path.join(self.data_directory, file)
DataDirectory == <<"d","/">>
PathJoin(name) == DataDirectory \o name

\* os.path.basename(file_path)
Basename(path) == SubSeq(path, Len(DataDirectory) + 1, Len(path))

\* What a file holds: the words of its text, or bytes no extractor can read.
TextEmpty == << >>
TextA     == << <<"P","y","t","h","o","n">> >>
TextB     == << <<"D","j","a","n","g","o",",">>, <<"A","W","S">>,
               <<"p","y","t","h","o","n">> >>
Texts     == {TextEmpty, TextA, TextB}
Absent    == [present |-> FALSE, readable |-> FALSE, words |-> << >>]
Corrupt   == [present |-> TRUE, readable |-> FALSE, words |-> << >>]
Readable(t) == [present |-> TRUE, readable |-> TRUE, words |-> t]
\* what the user may save under each name
FileStates(f) ==
  IF f = NameCv THEN {Readable(TextA), Readable(TextB), Readable(TextEmpty)}
  ELSE IF f = NameResume THEN {Readable(TextA), Corrupt}
  ELSE {Readable(TextA)}
\* the files the user works on; the picture stays as it is
Editable == FileNames \ {NamePhoto}
EmptyDir == [f \in FileNames |-> Absent]
CvDir    == [f \in FileNames |->
               IF f \in {NameCv, NamePhoto} THEN Readable(TextA) ELSE Absent]
\* a directory with one file no extractor can read
MixedDir == [f \in FileNames |->
               IF f \in {NameCv, NamePhoto} THEN Readable(TextA)
               ELSE IF f = NameResume THEN Corrupt ELSE Absent]
FullDir  == [f \in FileNames |->
               IF f = NameNotes THEN Absent ELSE Readable(TextA)]

\* ------------------------------------------------------------ resume_rag.py
supported_extensions ==
  << <<".","p","d","f">>, <<".","d","o","c","x">>,
     <<".","t","x","t">>, <<".","m","d">> >>

HasSupportedExtension(file) ==
  \E k \in 1..Len(supported_extensions) :
     EndsWith(Lower(file), supported_extensions[k])

IsResumeNamed(file) ==
  \/ Contains(Lower(file), <<"r","e","s","u","m","e">>)
  \/ Contains(Lower(file), <<"c","v">>)

\* os.listdir: the names present in d, in the order the file system keeps them
NameOrder == <<NameCv, NameResume, NameNotes, NamePhoto>>
Listing(d) == SelectSeq(NameOrder, LAMBDA f : d[f].present)

\* _find_resume_files that takes every supported file, whatever its name
_find_resume_files_AllSupported(listing) ==
  LET all == SelectSeq(listing, LAMBDA f : HasSupportedExtension(f))
  IN  [k \in 1..Len(all) |-> PathJoin(all[k])]

\* _find_resume_files over a directory listing (a sequence of names)
_find_resume_files(listing) ==
  LET named == SelectSeq(listing,
                 LAMBDA f : HasSupportedExtension(f) /\ IsResumeNamed(f))
      all   == SelectSeq(listing, LAMBDA f : HasSupportedExtension(f))
      pick  == IF named # << >> THEN named ELSE all
  IN  [k \in 1..Len(pick) |-> PathJoin(pick[k])]

\* _extract_content: the text of the file, "" when extraction fails
_extract_content(state) ==
  IF state.present /\ state.readable THEN state.words ELSE << >>

Min(a, b) == IF a < b THEN a ELSE b
Max(a, b) == IF a > b THEN a ELSE b

\* _split_into_chunks that drops a last window shorter than chunk_size
_split_into_chunks_FullWindows(words, chunk_size) ==
  LET n == Len(words) \div chunk_size
  IN  [k \in 1..n |-> Join(SubSeq(words, (k - 1) * chunk_size + 1,
                                  k * chunk_size), <<" ">>)]

\* _split_into_chunks: windows of chunk_size words, in order, each joined
\* with single spaces; a window that is empty after trimming is dropped
_split_into_chunks(words, chunk_size) ==
  LET starts == {i \in 0..(Len(words) - 1) : i % chunk_size = 0}
      n      == Cardinality(starts)
      chunk(k) == Join(SubSeq(words, (k - 1) * chunk_size + 1,
                              Min(k * chunk_size, Len(words))), <<" ">>)
  IN  SelectSeq([k \in 1..n |-> chunk(k)], LAMBDA c : Split(c) # << >>)

\* a doc_id that leaves the file out
DocId_IndexOnly(file_path, i) ==
  <<"r","e","s","u","m","e","_">> \o IntToStr(i)

\* doc_id = f"resume_{os.path.basename(file_path)}_{i}"
DocId(file_path, i) ==
  <<"r","e","s","u","m","e","_">> \o Basename(file_path) \o <<"_">> \o IntToStr(i)

Metadata(file_path, i, now) ==
  [source_file   |-> Basename(file_path),
   file_path     |-> file_path,
   chunk_index   |-> i,
   document_type |-> "resume",
   processed_at  |-> now]

Ids(coll) == {e.id : e \in coll}

\* collection.add that stores the record without looking for its id
CollectionAdd_Append(coll, id, document, metadata, faults, policy) ==
  IF id \in faults THEN [collection |-> coll, raised |-> TRUE]
  ELSE [collection |-> coll \cup {[id |-> id, document |-> document,
                                   metadata |-> metadata]},
        raised |-> FALSE]

\* collection.add that behaves as collection.upsert
CollectionAdd_Upsert(coll, id, document, metadata, faults, policy) ==
  IF id \in faults THEN [collection |-> coll, raised |-> TRUE]
  ELSE [collection |-> {e \in coll : e.id # id} \cup
                       {[id |-> id, document |-> document,
                         metadata |-> metadata]},
        raised |-> FALSE]

\* collection.add of one record.  `faults` are the ids for which the Index or
\* the Embedder raises in this run.  An id that is already stored is not
\* written again: depending on the chromadb release the call is ignored or
\* raises a duplicate-id error (policy).
CollectionAdd(coll, id, document, metadata, faults, policy) ==
  IF id \in faults THEN [collection |-> coll, raised |-> TRUE]
  ELSE IF id \in Ids(coll)
       THEN [collection |-> coll, raised |-> (policy = "raise")]
       ELSE [collection |-> coll \cup {[id |-> id, document |-> document,
                                        metadata |-> metadata]},
             raised |-> FALSE]

\* the loop of _process_resume_file over enumerate(chunks), from chunk i on
RECURSIVE AddChunks(_, _, _, _, _, _, _)
AddChunks(coll, file_path, chunks, i, now, faults, policy) ==
  IF i >= Len(chunks) THEN [collection |-> coll, raised |-> FALSE]
  ELSE LET r == CollectionAdd(coll, DocId(file_path, i), chunks[i + 1],
                              Metadata(file_path, i, now), faults, policy)
       IN  IF r.raised THEN r
           ELSE AddChunks(r.collection, file_path, chunks, i + 1, now,
                          faults, policy)

\* _process_resume_file: the collection afterwards and the returned flag
_process_resume_file(coll, file_path, d, now, faults, policy) ==
  LET content == _extract_content(d[Basename(file_path)])
  IN  IF content = << >> THEN [collection |-> coll, ret |-> FALSE]
      ELSE LET done(r) == [collection |-> r.collection, ret |-> ~r.raised]
           IN  done(AddChunks(coll, file_path,
                              _split_into_chunks(content, DefaultChunkSize),
                              0, now, faults, policy))

\* the for loop of load_resume_files, from file k on: the collection
\* afterwards, and the files for which _process_resume_file returned False
\* (the loop itself ignores that flag)
RECURSIVE ProcessFiles(_, _, _, _, _, _, _, _)
ProcessFiles(coll, skipped, files, k, d, now, faults, policy) ==
  IF k > Len(files) THEN [collection |-> coll, skipped |-> skipped]
  ELSE LET go(p) == ProcessFiles(p.collection,
                                 IF p.ret THEN skipped ELSE skipped \cup {files[k]},
                                 files, k + 1, d, now, faults, policy)
       IN  go(_process_resume_file(coll, files[k], d, now, faults, policy))

\* load_resume_files that rebuilds the collection from the files it finds
load_resume_files_Rebuild(coll, d, listing, listdir_raises, now, faults, policy) ==
  IF listdir_raises
  THEN [collection |-> coll, ret |-> FALSE, files |-> << >>, skipped |-> {}]
  ELSE LET resume_files == _find_resume_files(listing)
           p == ProcessFiles({}, {}, resume_files, 1, d, now, faults, policy)
       IN  IF resume_files = << >>
           THEN [collection |-> coll, ret |-> FALSE, files |-> << >>,
                 skipped |-> {}]
           ELSE [collection |-> p.collection, ret |-> TRUE,
                 files |-> resume_files, skipped |-> p.skipped]

\* load_resume_files that reports whether some file was stored
load_resume_files_AnyStored(coll, d, listing, listdir_raises, now, faults, policy) ==
  IF listdir_raises
  THEN [collection |-> coll, ret |-> FALSE, files |-> << >>, skipped |-> {}]
  ELSE LET resume_files == _find_resume_files(listing)
           p == ProcessFiles(coll, {}, resume_files, 1, d, now, faults, policy)
       IN  [collection |-> p.collection,
            ret |-> \E k \in 1..Len(resume_files) : resume_files[k] \notin p.skipped,
            files |-> resume_files, skipped |-> p.skipped]

\* load_resume_files: listdir_raises is os.listdir failing (the outer
\* except).  Besides the collection and the returned flag, the files handed
\* to _process_resume_file and those of them for which it returned False.
load_resume_files(coll, d, listing, listdir_raises, now, faults, policy) ==
  IF listdir_raises
  THEN [collection |-> coll, ret |-> FALSE, files |-> << >>, skipped |-> {}]
  ELSE LET resume_files == _find_resume_files(listing)
           p == ProcessFiles(coll, {}, resume_files, 1, d, now, faults, policy)
       IN  IF resume_files = << >>
           THEN [collection |-> coll, ret |-> FALSE, files |-> << >>,
                 skipped |-> {}]
           ELSE [collection |-> p.collection, ret |-> TRUE,
                 files |-> resume_files, skipped |-> p.skipped]

\* --------------------------------------------------------------- retrieval
\* 1.0 in the unit of distances and relevances (tenths)
One == 10

\* the stored records in one order
RECURSIVE Ranked(_)
Ranked(S) ==
  IF S = {} THEN << >>
  ELSE LET e == CHOOSE x \in S : TRUE IN <<e>> \o Ranked(S \ {e})

\* the distances the Index may report for its five nearest records
DistanceProfiles == {<<0, 2, 5, 10, 15>>, <<12, 12, 15, 15, 20>>}

\* collection.query(n_results = n): the min(n, count) nearest records with
\* their distances, nearest first
IndexAnswers(coll, n) ==
  LET r == Ranked(coll)
      k == Min(n, Len(r))
  IN  {[i \in 1..k |-> [document |-> r[i].document,
                         metadata |-> r[i].metadata,
                         distance |-> p[i]]] : p \in DistanceProfiles}

\* what a search meets: the Index or the Embedder raises, or the Index answers
SearchInputs(coll, n) ==
  {[raises |-> TRUE, answer |-> << >>]} \cup
  {[raises |-> FALSE, answer |-> a] : a \in IndexAnswers(coll, n)}

\* search_resume: the formatted results, [] when the query raised
search_resume(input) ==
  IF input.raises THEN << >>
  ELSE [i \in 1..Len(input.answer) |->
          [content   |-> input.answer[i].document,
           metadata  |-> input.answer[i].metadata,
           distance  |-> input.answer[i].distance,
           relevance |-> Max(0, One - input.answer[i].distance)]]

\* get_resume_summary
get_resume_summary(coll, get_raises) ==
  IF get_raises
  THEN [text |-> "Error retrieving resume summary", total_chunks |-> 0,
        source_files |-> {}]
  ELSE IF coll = {}
  THEN [text |-> "No resume information available", total_chunks |-> 0,
        source_files |-> {}]
  ELSE [text |-> "Resume Knowledge Base Summary:",
        total_chunks |-> Cardinality(coll),
        source_files |-> {e.metadata.source_file : e \in coll}]

\* -------------------------------------------------- personal_resume_agent.py
query_keywords ==
  << [category |-> "experience",
      keywords |-> <<
        <<"e","x","p","e","r","i","e","n","c","e">>,
        <<"w","o","r","k">>,
        <<"j","o","b">>,
        <<"e","m","p","l","o","y","m","e","n","t">>,
        <<"c","a","r","e","e","r">>,
        <<"r","o","l","e">>,
        <<"p","o","s","i","t","i","o","n">> >>],
     [category |-> "skills",
      keywords |-> <<
        <<"s","k","i","l","l","s">>,
        <<"t","e","c","h","n","o","l","o","g","y">>,
        <<"p","r","o","g","r","a","m","m","i","n","g">>,
        <<"l","a","n","g","u","a","g","e","s">>,
        <<"t","o","o","l","s">>,
        <<"e","x","p","e","r","t","i","s","e">> >>],
     [category |-> "education",
      keywords |-> <<
        <<"e","d","u","c","a","t","i","o","n">>,
        <<"d","e","g","r","e","e">>,
        <<"u","n","i","v","e","r","s","i","t","y">>,
        <<"c","o","l","l","e","g","e">>,
        <<"s","c","h","o","o","l">>,
        <<"c","e","r","t","i","f","i","c","a","t","i","o","n">> >>],
     [category |-> "achievements",
      keywords |-> <<
        <<"a","c","h","i","e","v","e","m","e","n","t","s">>,
        <<"a","c","c","o","m","p","l","i","s","h","m","e","n","t","s">>,
        <<"a","w","a","r","d","s">>,
        <<"r","e","c","o","g","n","i","t","i","o","n">>,
        <<"s","u","c","c","e","s","s">> >>],
     [category |-> "projects",
      keywords |-> <<
        <<"p","r","o","j","e","c","t","s">>,
        <<"p","o","r","t","f","o","l","i","o">>,
        <<"b","u","i","l","t">>,
        <<"d","e","v","e","l","o","p","e","d">>,
        <<"c","r","e","a","t","e","d">> >>],
     [category |-> "contact",
      keywords |-> <<
        <<"c","o","n","t","a","c","t">>,
        <<"e","m","a","i","l">>,
        <<"p","h","o","n","e">>,
        <<"l","o","c","a","t","i","o","n">>,
        <<"a","d","d","r","e","s","s">>,
        <<"r","e","a","c","h">> >>],
     [category |-> "general", keywords |-> << >>] >>

\* _classify_query that takes a keyword only as a whole word of the query
_classify_query_WholeWord(query) ==
  LET words  == Split(query)
      hit(k) == \E j \in 1..Len(query_keywords[k].keywords) :
                  \E w \in 1..Len(words) :
                    words[w] = query_keywords[k].keywords[j]
      hits   == {k \in 1..Len(query_keywords) : hit(k)}
  IN  IF hits = {} THEN "general"
      ELSE query_keywords[CHOOSE k \in hits : \A j \in hits : k <= j].category

\* _classify_query that lets the last matching category win
_classify_query_LastMatch(query) ==
  LET hit(k) == \E j \in 1..Len(query_keywords[k].keywords) :
                  Contains(query, query_keywords[k].keywords[j])
      hits   == {k \in 1..Len(query_keywords) : hit(k)}
  IN  IF hits = {} THEN "general"
      ELSE query_keywords[CHOOSE k \in hits : \A j \in hits : k >= j].category

\* _classify_query: the first category of the table with a keyword in query
_classify_query(query) ==
  LET hit(k) == \E j \in 1..Len(query_keywords[k].keywords) :
                  Contains(query, query_keywords[k].keywords[j])
      hits   == {k \in 1..Len(query_keywords) : hit(k)}
  IN  IF hits = {} THEN "general"
      ELSE query_keywords[CHOOSE k \in hits : \A j \in hits : k <= j].category

Categories == {query_keywords[k].category : k \in 1..Len(query_keywords)}

_get_response_template(query_type) ==
  CASE query_type = "experience" -> "Here's information about professional experience:"
    [] query_type = "skills" -> "Here are the relevant skills and technologies:"
    [] query_type = "education" -> "Here's the educational background:"
    [] query_type = "achievements" -> "Here are notable achievements and accomplishments:"
    [] query_type = "projects" -> "Here are relevant projects and developments:"
    [] query_type = "contact" -> "Here's the contact information:"
    [] OTHER -> "Based on the resume information:"

\* _get_no_info_response with one sentence for every category
_get_no_info_response_General(query_type) ==
  "I don't have information about that topic in the resume."

_get_no_info_response(query_type) ==
  CASE query_type = "experience" -> "I don't have specific information about that work experience in the resume."
    [] query_type = "skills" -> "I don't have information about those particular skills in the resume."
    [] query_type = "education" -> "I don't have information about that educational background in the resume."
    [] query_type = "achievements" -> "I don't have information about those specific achievements in the resume."
    [] query_type = "projects" -> "I don't have information about those particular projects in the resume."
    [] query_type = "contact" -> "I don't have contact information available in the resume."
    [] OTHER -> "I don't have information about that topic in the resume."

\* a response that is one fixed sentence
Message(text) == [text |-> text, context |-> << >>, sections |-> 0]

\* context[:800]
ContextLimit == 800

\* _generate_response that leaves out the results of relevance 0
_generate_response_Filtered(query_type, search_results) ==
  IF search_results = << >> THEN Message(_get_no_info_response(query_type))
  ELSE LET top == SubSeq(search_results, 1, Min(3, Len(search_results)))
           kept == SelectSeq(top, LAMBDA r : r.relevance > 0)
           relevant_content == [i \in 1..Len(kept) |-> kept[i].content]
       IN  IF relevant_content = << >>
           THEN Message(_get_no_info_response(query_type))
           ELSE [text |-> _get_response_template(query_type),
                 context |-> Prefix(Join(relevant_content, <<"\n">>), ContextLimit),
                 sections |-> Len(search_results)]

\* _generate_response: the template sentence, the context and the number the
\* attribution note states; or the no-information sentence
_generate_response(query_type, search_results) ==
  IF search_results = << >> THEN Message(_get_no_info_response(query_type))
  ELSE LET top == SubSeq(search_results, 1, Min(3, Len(search_results)))
           kept == SelectSeq(top, LAMBDA r : r.relevance >= 0)
           relevant_content == [i \in 1..Len(kept) |-> kept[i].content]
       IN  IF relevant_content = << >>
           THEN Message(_get_no_info_response(query_type))
           ELSE [text |-> _get_response_template(query_type),
                 context |-> Prefix(Join(relevant_content, <<"\n">>), ContextLimit),
                 sections |-> Len(search_results)]

\* a float that is a quotient of relevances: num / den
Zero == [num |-> 0, den |-> 1]

RECURSIVE SumRelevance(_)
SumRelevance(results) ==
  IF results = << >> THEN 0
  ELSE results[1].relevance + SumRelevance(Tail(results))

\* _calculate_confidence that averages over all the results
_calculate_confidence_AllResults(search_results) ==
  IF search_results = << >> THEN Zero
  ELSE LET sum == SumRelevance(search_results)
       IN  IF sum > One * Len(search_results) THEN [num |-> One, den |-> 1]
           ELSE [num |-> sum, den |-> Len(search_results)]

\* _calculate_confidence: min(mean relevance of the top 3, 1.0)
_calculate_confidence(search_results) ==
  IF search_results = << >> THEN Zero
  ELSE LET top_results == SubSeq(search_results, 1, Min(3, Len(search_results)))
           sum == SumRelevance(top_results)
       IN  IF sum > One * Len(top_results) THEN [num |-> One, den |-> 1]
           ELSE [num |-> sum, den |-> Len(top_results)]

NotInitializedOutcome ==
  [response |-> Message("Agent not initialized. Please initialize first."),
   source |-> "system_error", confidence |-> Zero]

\* process_query: nothing between the guard and the return raises (search_resume
\* catches what the Index raises), so the except branch is never taken
process_query(ready, query, input, now) ==
  IF ~ready THEN NotInitializedOutcome
  ELSE LET query_type == _classify_query(Lower(query))
           search_results == search_resume(input)
       IN  [response |-> _generate_response(query_type, search_results),
            query_type |-> query_type,
            source_chunks |-> Len(search_results),
            confidence |-> _calculate_confidence(search_results),
            timestamp |-> now]

\* the fixed query of get_skill_match
SkillsQuery == <<"s","k","i","l","l","s"," ","t","e","c","h","n","o","l","o","g","i","e","s"," ","p","r","o","g","r","a","m","m","i","n","g">>

\* a job_requirements argument that is no str (None, a number)
NotAString == <<"<no str>">>

\* round(a / b): the nearest integer, a tie going to the even one
RoundHalfEven(a, b) ==
  LET q == a \div b
      r == a % b
  IN  IF 2 * r < b THEN q
      ELSE IF 2 * r > b THEN q + 1
      ELSE IF q % 2 = 0 THEN q ELSE q + 1

\* round(x, 1) of x = num / den: a number of tenths
Round1(num, den) == [num |-> RoundHalfEven(num * 10, den), den |-> 10]

\* the keywords of the job description found among the skills keywords
MatchingSkills(job_keywords, skills_keywords) ==
  SelectSeq(job_keywords,
    LAMBDA keyword :
      /\ Len(keyword) > 3
      /\ \E k \in 1..Len(skills_keywords) : skills_keywords[k] = keyword)

\* " ".join of the contents of the results
SkillsContent(skills_results) ==
  Join([i \in 1..Len(skills_results) |-> skills_results[i].content], <<" ">>)

\* get_skill_match that takes the percentage of the matches it returns
get_skill_match_OfReturned(job_requirements, input) ==
  LET skills_results == search_resume(input) IN
  IF skills_results = << >>
  THEN [match_percentage |-> Zero, matching_skills |-> << >>,
        missing_skills |-> << >>,
        recommendations |-> "No skills information available in resume"]
  ELSE IF job_requirements = NotAString
  THEN [match_percentage |-> Zero,
        error |-> "'NoneType' object has no attribute 'lower'"]
  ELSE LET skills_content == SkillsContent(skills_results)
           job_keywords == Split(Lower(job_requirements))
           matching_skills ==
             Prefix(MatchingSkills(job_keywords, Split(Lower(skills_content))), 10)
           den == Max(Len(job_keywords), 1)
       IN  [match_percentage |->
              Round1(Min(Len(matching_skills) * 100, 100 * den), den),
            matching_skills |-> matching_skills,
            skills_summary |-> Prefix(skills_content, 500),
            confidence |-> _calculate_confidence(skills_results)]

\* get_skill_match: the initialized flag is not consulted.  With results in
\* hand, job_requirements.lower() raises on an argument that is no str and
\* the except branch returns str(e) under "error".
get_skill_match(job_requirements, input) ==
  LET skills_results == search_resume(input) IN
  IF skills_results = << >>
  THEN [match_percentage |-> Zero, matching_skills |-> << >>,
        missing_skills |-> << >>,
        recommendations |-> "No skills information available in resume"]
  ELSE IF job_requirements = NotAString
  THEN [match_percentage |-> Zero,
        error |-> "'NoneType' object has no attribute 'lower'"]
  ELSE LET skills_content == SkillsContent(skills_results)
           job_keywords == Split(Lower(job_requirements))
           skills_keywords == Split(Lower(skills_content))
           matching_skills == MatchingSkills(job_keywords, skills_keywords)
           den == Max(Len(job_keywords), 1)
       IN  [match_percentage |->
              Round1(Min(Len(matching_skills) * 100, 100 * den), den),
            matching_skills |-> Prefix(matching_skills, 10),
            skills_summary |-> Prefix(skills_content, 500),
            confidence |-> _calculate_confidence(skills_results)]

\* get_agent_info
get_agent_info(ready, coll) ==
  [agent_name |-> "Personal Resume Agent", initialized |-> ready,
   resume_summary |-> get_resume_summary(coll, FALSE)]

\* the queries and job descriptions callers send
QueryAnything   == <<"a","n","y","t","h","i","n","g">>
QueryWorkSkills == <<"M","y"," ","W","o","r","k"," ","s","k","i","l","l","s">>
Queries == {QueryAnything, QueryWorkSkills}
JobPython == <<"P","y","t","h","o","n"," ","d","e","v","e","l","o","p","e","r"," ","w","i","t","h"," ","D","j","a","n","g","o"," ","e","x","p","e","r","i","e","n","c","e">>
Jobs == {JobPython}

\* ------------------------------------------------------ mcp_resume_server.py
\* request.get("id") of a request without an id
NoneId == -1

\* create_response: the id (0 for None), and the error or the result
create_response(request_id, result, error) ==
  [id |-> IF request_id # NoneId THEN request_id ELSE 0,
   code |-> error.code,
   body |-> IF error.code # 0 THEN Message(error.message) ELSE result]

NoError == [code |-> 0, message |-> ""]
Error(code, message) == [code |-> code, message |-> message]

\* the lines a client may send.  "empty" is a line of whitespace, "badjson"
\* is not JSON, "nonobject" is JSON that is no object (a list, a number, a
\* string, null); the others are JSON objects with that method.
LineKinds ==
  {"empty", "badjson", "nonobject", "initialize", "tools/list",
   "tools/call", "prompts/list", "resources/list", "other"}

\* the params of a tools/call request: not an object at all, naming another
\* tool, without a query, with a query that is no string, or well-formed
CallShapes == {"badparams", "unknowntool", "noquery", "nonstring", "query"}

NoRequest  == [kind |-> "none", id |-> NoneId, shape |-> "none", query |-> << >>]
NoResponse == [id |-> 0, code |-> 0, body |-> Message("")]

\* the outcome of process_query when query.lower() raises (the except branch)
QueryErrorOutcome ==
  [response |-> Message("I encountered an error while processing your question. Please try again."),
   source |-> "system_error", confidence |-> Zero]

Capabilities == Message("personal-resume-server 1.0.0")
ToolList     == Message("query_resume")
EmptyList    == Message("[]")

\* ------------------------------------------------------------------- state
VARIABLES
  dir,          \* the data directory: file name -> what the file holds
  collection,   \* the chromadb collection: a set of stored records
  dupPolicy,    \* what collection.add does with an id that is already stored
  initialized,  \* PersonalResumeAgent.initialized
  clock,        \* datetime.now(), advanced by every ingestion run
  steps,        \* ingestion runs and changes of the data directory so far
  ingestion,    \* the last ingestion run, and the files changed since
  last,         \* the last call: its name, its result, the state it started in
  server        \* PersonalResumeMCPServer: its flag, its place in the stdio
                \* loop, the request in hand, what it has read and written

vars == <<dir, collection, dupPolicy, initialized, clock, steps, ingestion,
          last, server>>

\* the fields of `last` for a call that neither ingests nor searches;
\* `failed` tells that the Index or the Embedder raised in the call's search,
\* `processed` counts the files a run handed to _process_resume_file and
\* `skipped` are those of them for which it returned False
NoCall ==
  [op |-> "none", ready |-> FALSE, ret |-> [value |-> FALSE],
   arg |-> << >>, rerun |-> FALSE, clean |-> FALSE, changed |-> {},
   ingested |-> FALSE, searched |-> FALSE, failed |-> FALSE,
   processed |-> 0, skipped |-> {}]

\* what goes wrong in one run: nothing, os.listdir raises, or the Index or
\* the Embedder raises on the add of one id (the second chunk of a file)
ListdirFault == <<"listdir">>
FaultChoices == {{}, {ListdirFault}, {DocId(PathJoin(NameCv), 1)}}

TypeOK ==
  /\ \A f \in FileNames : dir[f] \in FileStates(f) \cup {Absent}
  /\ dupPolicy \in {"ignore", "raise"}
  /\ initialized \in BOOLEAN
  /\ clock \in 0..MaxSteps
  /\ steps \in 0..MaxSteps
  /\ clock <= steps
  /\ \A e \in collection : e.metadata.processed_at < clock

Init ==
  /\ dir \in {EmptyDir, CvDir, MixedDir, FullDir}
  /\ collection = {}
  /\ dupPolicy \in {"ignore", "raise"}
  /\ initialized = FALSE
  /\ clock = 0
  /\ steps = 0
  /\ ingestion = [ran |-> FALSE, clean |-> FALSE, empty |-> FALSE,
                  edited |-> {}]
  /\ last = NoCall
  /\ server = [initialized |-> FALSE, pc |-> "read", request |-> NoRequest,
               response |-> NoResponse, lines |-> 0, requests |-> 0,
               out |-> << >>, cause |-> "running"]

\* ------------------------------------------------------------- environment
\* the user saves or edits a file of the data directory
WriteFile ==
  \E f \in Editable : \E s \in FileStates(f) :
    /\ steps < MaxSteps
    /\ dir[f] # s
    /\ dir' = [dir EXCEPT ![f] = s]
    /\ steps' = steps + 1
    /\ ingestion' = [ingestion EXCEPT !.edited = @ \cup {f}]
    /\ last' = [NoCall EXCEPT !.op = "write_file"]
    /\ UNCHANGED <<server, collection, dupPolicy, initialized, clock>>

\* the user removes a file of the data directory
DeleteFile ==
  \E f \in Editable :
    /\ steps < MaxSteps
    /\ dir[f].present
    /\ dir' = [dir EXCEPT ![f] = Absent]
    /\ steps' = steps + 1
    /\ ingestion' = [ingestion EXCEPT !.edited = @ \cup {f}]
    /\ last' = [NoCall EXCEPT !.op = "delete_file"]
    /\ UNCHANGED <<server, collection, dupPolicy, initialized, clock>>

\* the process ends and a new one constructs the agent: the persistent
\* collection is reopened with what it held, the flag starts False
Restart ==
  /\ initialized' = FALSE
  /\ last' = [NoCall EXCEPT !.op = "restart"]
  /\ UNCHANGED <<server, dir, collection, dupPolicy, clock, steps, ingestion>>

\* --------------------------------------------------------------- ingestion
\* one run of load_resume_files started in the current state
IngestionRun(faults) ==
  load_resume_files(collection, dir, Listing(dir), ListdirFault \in faults, clock,
                    faults, dupPolicy)

\* what `last` keeps of a run
RunFacts(op, faults) ==
  [NoCall EXCEPT
     !.op = op, !.ready = initialized,
     !.rerun = ingestion.ran /\ ingestion.clean /\ ingestion.edited = {},
     !.clean = (faults = {}),
     !.changed = IF ingestion.ran THEN ingestion.edited ELSE {},
     !.ingested = TRUE]

\* what `ingestion` keeps of a run: whether nothing went wrong in it, and
\* whether it found no supported file at all
RunRecord(r, faults) ==
  [ran |-> TRUE, clean |-> (faults = {}),
   empty |-> (~r.ret /\ ListdirFault \notin faults), edited |-> {}]

\* a direct call of rag_system.load_resume_files()
LoadResumeFiles ==
  \E faults \in FaultChoices :
    /\ steps < MaxSteps
    /\ \E r \in {IngestionRun(faults)} :
         /\ collection' = r.collection
         /\ clock' = clock + 1
         /\ steps' = steps + 1
         /\ ingestion' = RunRecord(r, faults)
         /\ last' = [RunFacts("load_resume_files", faults)
                       EXCEPT !.ret = [value |-> r.ret],
                              !.processed = Len(r.files),
                              !.skipped = r.skipped]
         /\ UNCHANGED <<server, dir, dupPolicy, initialized>>

\* initialize that gives up its flag when no file was loaded
initialize_ResetsFlag(success) ==
  IF success THEN [initialized |-> TRUE, ret |-> TRUE]
  ELSE [initialized |-> FALSE, ret |-> TRUE]

\* initialize that reports a load without files as a failure
initialize_ReturnsFalse(success) ==
  IF success THEN [initialized |-> TRUE, ret |-> TRUE]
  ELSE [initialized |-> TRUE, ret |-> FALSE]

\* PersonalResumeAgent.initialize, given the result of load_resume_files:
\* the load never lets an exception out, so the except branch is never
\* taken; both results of the load set the flag and return True
initialize(success) ==
  IF success THEN [initialized |-> TRUE, ret |-> TRUE]
  ELSE [initialized |-> TRUE, ret |-> TRUE]

\* the effect of one call of agent.initialize()
InitializeCall(faults) ==
  /\ steps < MaxSteps
  /\ \E r \in {IngestionRun(faults)} :
       LET a == initialize(r.ret) IN
       /\ collection' = r.collection
       /\ clock' = clock + 1
       /\ steps' = steps + 1
       /\ initialized' = a.initialized
       /\ ingestion' = RunRecord(r, faults)
       /\ last' = [RunFacts("initialize", faults)
                     EXCEPT !.ret = [value |-> a.ret, load |-> r.ret],
                            !.processed = Len(r.files),
                            !.skipped = r.skipped]

\* a direct call of agent.initialize()
Initialize ==
  \E faults \in FaultChoices :
    /\ InitializeCall(faults)
    /\ UNCHANGED <<server, dir, dupPolicy>>

\* what `last` keeps of one call of agent.process_query(query)
QueryFacts(query, input) ==
  [NoCall EXCEPT
     !.op = "process_query", !.ready = initialized, !.arg = query,
     !.ret = process_query(initialized, query, input, clock),
     !.searched = initialized, !.failed = initialized /\ input.raises]

\* process_query that marks the facade ready before it answers
ProcessQuery_SetsReady ==
  \E query \in Queries : \E input \in SearchInputs(collection, 5) :
    /\ initialized' = TRUE
    /\ last' = [QueryFacts(query, input) EXCEPT
                  !.ret = process_query(TRUE, query, input, clock)]
    /\ UNCHANGED <<server, dir, collection, dupPolicy, clock, steps, ingestion>>

\* a direct call of process_query(query)
ProcessQuery ==
  \E query \in Queries : \E input \in SearchInputs(collection, 5) :
    /\ last' = QueryFacts(query, input)
    /\ UNCHANGED <<server, dir, collection, dupPolicy, initialized, clock, steps,
                   ingestion>>

\* a call of get_skill_match(job_requirements)
GetSkillMatch ==
  \E job \in Jobs : \E input \in SearchInputs(collection, 5) :
    /\ last' = [NoCall EXCEPT
                  !.op = "get_skill_match", !.ready = initialized, !.arg = job,
                  !.ret = get_skill_match(job, input),
                  !.searched = TRUE, !.failed = input.raises]
    /\ UNCHANGED <<server, dir, collection, dupPolicy, initialized, clock, steps,
                   ingestion>>

\* a call of get_agent_info()
GetAgentInfo ==
  /\ last' = [NoCall EXCEPT
                !.op = "get_agent_info", !.ready = initialized,
                !.ret = get_agent_info(initialized, collection)]
  /\ UNCHANGED <<server, dir, collection, dupPolicy, initialized, clock, steps,
                 ingestion>>

\* ----------------------------------------------------------- the stdio loop
MaxLines == 2

\* sys.stdin.readline(): end of input ends the loop; a line that is empty
\* after strip() is skipped; any other line is taken in hand
ReadLine ==
  /\ server.pc = "read"
  /\ \/ /\ server' = [server EXCEPT !.pc = "stopped", !.cause = "eof"]
     \/ /\ server.lines < MaxLines
        /\ server' = [server EXCEPT !.lines = @ + 1]
     \/ /\ server.lines < MaxLines
        /\ \E kind \in LineKinds \ {"empty"}, id \in {NoneId, server.lines + 1},
              shape \in CallShapes, query \in Queries :
             /\ (kind # "tools/call") => (shape = "query")
             /\ (shape # "query" \/ kind # "tools/call") => (query = QueryAnything)
             /\ server' = [server EXCEPT
                  !.pc = "handle", !.lines = @ + 1, !.requests = @ + 1,
                  !.request = [kind |-> kind, id |-> id, shape |-> shape,
                               query |-> query]]
  /\ UNCHANGED <<dir, collection, dupPolicy, initialized, clock, steps,
                 ingestion, last>>

\* the response is in hand: go and print it
Respond(response) ==
  server' = [server EXCEPT !.pc = "write", !.response = response]

\* json.loads raises JSONDecodeError: the parse-error response, id 0
HandleBadJson ==
  /\ server.pc = "handle"
  /\ server.request.kind = "badjson"
  /\ Respond(create_response(0, Message(""), Error(-32700, "Parse error")))
  /\ UNCHANGED <<dir, collection, dupPolicy, initialized, clock, steps,
                 ingestion, last>>

\* json.loads yields a value without .get: request.get raises AttributeError,
\* the handler of `except Exception` calls request.get("id", 0), which raises
\* again; that exception leaves the while loop and the server stops
HandleNonObject ==
  /\ server.pc = "handle"
  /\ server.request.kind = "nonobject"
  /\ server' = [server EXCEPT !.pc = "stopped", !.cause = "exception"]
  /\ UNCHANGED <<dir, collection, dupPolicy, initialized, clock, steps,
                 ingestion, last>>

\* handle_initialize that initializes the agent at every request
HandleInitialize_Always ==
  /\ server.pc = "handle"
  /\ server.request.kind = "initialize"
  /\ \E faults \in FaultChoices :
       /\ InitializeCall(faults)
       /\ server' = [server EXCEPT
            !.initialized = initialize(IngestionRun(faults).ret).ret,
            !.pc = "write",
            !.response = create_response(server.request.id, Capabilities,
                                         NoError)]
       /\ UNCHANGED <<dir, dupPolicy>>

\* method "initialize": handle_initialize runs agent.initialize() unless the
\* server's flag is set, and answers with the capabilities either way
HandleInitialize ==
  /\ server.pc = "handle"
  /\ server.request.kind = "initialize"
  /\ LET response == create_response(server.request.id, Capabilities, NoError) IN
     IF ~server.initialized
     THEN \E faults \in FaultChoices :
            /\ InitializeCall(faults)
            /\ server' = [server EXCEPT
                 !.initialized = initialize(IngestionRun(faults).ret).ret,
                 !.pc = "write", !.response = response]
            /\ UNCHANGED <<dir, dupPolicy>>
     ELSE /\ Respond(response)
          /\ UNCHANGED <<dir, collection, dupPolicy, initialized, clock, steps,
                         ingestion, last>>

\* the methods answered without the agent, and the unknown method
HandleList ==
  /\ server.pc = "handle"
  /\ server.request.kind \in {"tools/list", "prompts/list", "resources/list", "other"}
  /\ Respond(
       IF server.request.kind = "tools/list"
       THEN create_response(server.request.id, ToolList, NoError)
       ELSE IF server.request.kind \in {"prompts/list", "resources/list"}
       THEN create_response(server.request.id, EmptyList, NoError)
       ELSE create_response(server.request.id, Message(""),
                            Error(-32601, "Method not found")))
  /\ UNCHANGED <<dir, collection, dupPolicy, initialized, clock, steps,
                 ingestion, last>>

\* method "tools/call" that does not reach the agent: params without .get
\* raise inside handle_tool_call (server error -32000 under the request's
\* id); another tool and a missing query are invalid params (-32602)
HandleToolCallRejected ==
  /\ server.pc = "handle"
  /\ server.request.kind = "tools/call"
  /\ server.request.shape \in {"badparams", "unknowntool", "noquery"}
  /\ Respond(
       IF server.request.shape = "badparams"
       THEN create_response(server.request.id, Message(""),
                            Error(-32000, "Server error"))
       ELSE IF server.request.shape = "unknowntool"
       THEN create_response(server.request.id, Message(""),
                            Error(-32602, "Unknown tool"))
       ELSE create_response(server.request.id, Message(""),
                            Error(-32602, "Missing required parameter: query")))
  /\ UNCHANGED <<dir, collection, dupPolicy, initialized, clock, steps,
                 ingestion, last>>

\* method "tools/call" of query_resume: the text of agent.process_query(query)
HandleToolCall ==
  /\ server.pc = "handle"
  /\ server.request.kind = "tools/call"
  /\ server.request.shape \in {"nonstring", "query"}
  /\ IF server.request.shape = "nonstring"
     THEN /\ last' = [NoCall EXCEPT !.op = "process_query",
                        !.ready = initialized,
                        !.ret = IF initialized THEN QueryErrorOutcome
                                ELSE NotInitializedOutcome]
          /\ Respond(create_response(server.request.id,
                                     last'.ret.response, NoError))
     ELSE \E input \in SearchInputs(collection, 5) :
            /\ last' = QueryFacts(server.request.query, input)
            /\ Respond(create_response(server.request.id,
                                       last'.ret.response, NoError))
  /\ UNCHANGED <<dir, collection, dupPolicy, initialized, clock, steps,
                 ingestion>>

\* print(json.dumps(response)): the line is written and the loop reads on;
\* BrokenPipeError (the client is gone) ends the loop
WriteResponse ==
  /\ server.pc = "write"
  /\ \/ server' = [server EXCEPT
          !.pc = "read", !.request = NoRequest, !.response = NoResponse,
          !.out = Append(@, [line |-> server.requests,
                             id |-> server.response.id,
                             code |-> server.response.code,
                             text |-> server.response.body.text])]
     \/ server' = [server EXCEPT !.pc = "stopped", !.cause = "disconnect"]
  /\ UNCHANGED <<dir, collection, dupPolicy, initialized, clock, steps,
                 ingestion, last>>

Next ==
  \/ WriteFile
  \/ DeleteFile
  \/ Restart
  \/ LoadResumeFiles
  \/ Initialize
  \/ ProcessQuery
  \/ GetSkillMatch
  \/ GetAgentInfo

Spec == Init /\ [][Next]_vars

\* the server process, fed the client's lines, over the data directory as it
\* is when the process starts
NextServer ==
  \/ ReadLine
  \/ HandleBadJson
  \/ HandleNonObject
  \/ HandleInitialize
  \/ HandleList
  \/ HandleToolCallRejected
  \/ HandleToolCall
  \/ WriteResponse

SpecServer == Init /\ [][NextServer]_vars

\* ------------------------------------------------- the functions on their own
\* The pure functions of the program, each applied to arguments drawn from a
\* bounded set: `last` holds the pending call (op "call") and then its result.
MaxTextLen == 5
MaxWindow  == 3

\* the characters of the texts: two letters and the blank
TextChars == {"a", "b", " "}
Strings(n) == UNION {[1..k -> TextChars] : k \in 0..n}

\* the state of the program before any call, with `last` as given
Idle(l) ==
  /\ dir = EmptyDir
  /\ collection = {}
  /\ dupPolicy = "ignore"
  /\ initialized = FALSE
  /\ clock = 0
  /\ steps = 0
  /\ ingestion = [ran |-> FALSE, clean |-> FALSE, empty |-> FALSE,
                  edited |-> {}]
  /\ server = [initialized |-> FALSE, pc |-> "read", request |-> NoRequest,
               response |-> NoResponse, lines |-> 0, requests |-> 0,
               out |-> << >>, cause |-> "running"]
  /\ last = l

\* the pending call of a function with its arguments
Call(arg) == [NoCall EXCEPT !.op = "call", !.arg = arg]

\* the call returns
Return(op, value) ==
  /\ last.op = "call"
  /\ last' = [last EXCEPT !.op = op, !.ret = [value |-> value]]
  /\ UNCHANGED <<dir, collection, dupPolicy, initialized, clock, steps,
                 ingestion, server>>

\* _split_into_chunks(content, chunk_size)
InitChunks ==
  \E content \in Strings(MaxTextLen), chunk_size \in 1..MaxWindow :
    Idle(Call([content |-> content, chunk_size |-> chunk_size]))

SplitIntoChunks ==
  Return("_split_into_chunks",
         _split_into_chunks(Split(last.arg.content), last.arg.chunk_size))

SpecChunks == InitChunks /\ [][SplitIntoChunks]_vars

\* The per-chunk writes of _process_resume_file, file by file as the code
\* runs them or interleaved across files as a parallel ingestion would.
\* `last.arg` holds the collection the run started from, the faults of the
\* run, the next chunk of every candidate file (Done: the file has returned)
\* and the files in the order of their writes.
Done == -1

\* the directories a run may meet
Directories ==
  {d \in [FileNames -> UNION {FileStates(f) \cup {Absent} : f \in FileNames}] :
     \A f \in FileNames : d[f] \in FileStates(f) \cup {Absent}}

\* the chunks _process_resume_file makes of a file
ChunksOf(d, file_path) ==
  _split_into_chunks(_extract_content(d[Basename(file_path)]), DefaultChunkSize)

\* what an earlier run over FullDir left in the persistent collection
StoredBefore ==
  load_resume_files({}, FullDir, Listing(FullDir), FALSE, 0, {}, "ignore").collection

InitInterleave ==
  \E d \in Directories, start \in {{}, StoredBefore},
     faults \in FaultChoices \ {{ListdirFault}} :
    LET files == _find_resume_files(Listing(d)) IN
    /\ dir = d
    /\ collection = start
    /\ dupPolicy \in {"ignore", "raise"}
    /\ initialized = FALSE
    /\ clock = 1
    /\ steps = 1
    /\ ingestion = [ran |-> FALSE, clean |-> FALSE, empty |-> FALSE,
                    edited |-> {}]
    /\ server = [initialized |-> FALSE, pc |-> "read", request |-> NoRequest,
                 response |-> NoResponse, lines |-> 0, requests |-> 0,
                 out |-> << >>, cause |-> "running"]
    /\ last = [NoCall EXCEPT
                 !.op = "ingesting",
                 !.arg = [start |-> start, faults |-> faults, order |-> << >>,
                          pos |-> [k \in 1..Len(files) |->
                                     IF ChunksOf(d, files[k]) = << >> THEN Done
                                     ELSE 0]]]

\* one collection.add of the loop of _process_resume_file for one file; the
\* file returns after its last chunk, or when the add raises
WriteChunk ==
  /\ last.op = "ingesting"
  /\ \E k \in DOMAIN last.arg.pos :
       LET files  == _find_resume_files(Listing(dir))
           i      == last.arg.pos[k]
           chunks == ChunksOf(dir, files[k])
           r      == CollectionAdd(collection, DocId(files[k], i), chunks[i + 1],
                                   Metadata(files[k], i, clock), last.arg.faults,
                                   dupPolicy)
       IN  /\ i # Done
           /\ collection' = r.collection
           /\ last' = [last EXCEPT
                !.arg.order = Append(@, files[k]),
                !.arg.pos[k] = IF r.raised \/ i + 1 = Len(chunks) THEN Done
                               ELSE i + 1]
  /\ UNCHANGED <<dir, dupPolicy, initialized, clock, steps, ingestion, server>>

SpecInterleave == InitInterleave /\ [][WriteChunk]_vars

\* _classify_query(query.lower()) as process_query calls it, on queries of
\* up to MaxQueryWords words
MaxQueryWords == 2
QueryWords ==
  {<<"W","o","r","k","s","h","o","p">>,
   <<"S","K","I","L","L","S">>,
   <<"d","e","g","r","e","e">>,
   <<"a","w","a","r","d","s">>,
   <<"b","u","i","l","t">>,
   <<"e","-","m","a","i","l",":">>,
   <<"r","e","a","c","h">>,
   <<"n","o","n","e">>}
RECURSIVE WordSeqs(_)
WordSeqs(n) ==
  IF n = 0 THEN {<< >>}
  ELSE WordSeqs(n - 1) \cup
       {Append(q, w) : q \in {x \in WordSeqs(n - 1) : Len(x) = n - 1},
                       w \in QueryWords}

InitClassify ==
  \E words \in WordSeqs(MaxQueryWords) :
    Idle(Call([query |-> Join(words, <<" ">>)]))

Classify ==
  Return("_classify_query", _classify_query(Lower(last.arg.query)))

SpecClassify == InitClassify /\ [][Classify]_vars

\* process_query on a ready agent, for every answer of the Index with up to
\* MaxResults records at the distances below (tenths; 0 is an exact match,
\* One and more are clamped to relevance 0)
MaxResults == 4
Distances  == {0, 3, 10, 15}

\* the answers of collection.query with n records
AnswersOfLen(n) ==
  {[i \in 1..n |-> [document |-> TextA[1],
                     metadata |-> Metadata(PathJoin(NameCv), i - 1, 0),
                     distance |-> ds[i]]] : ds \in [1..n -> Distances]}

InitConfidence ==
  \E n \in 0..MaxResults : \E answer \in AnswersOfLen(n) :
    Idle(Call([query |-> QueryAnything,
               input |-> [raises |-> FALSE, answer |-> answer]]))

Confidence ==
  /\ last.op = "call"
  /\ last' = [last EXCEPT
       !.op = "process_query", !.ready = TRUE, !.searched = TRUE,
       !.ret = process_query(TRUE, last.arg.query, last.arg.input, clock)]
  /\ UNCHANGED <<dir, collection, dupPolicy, initialized, clock, steps,
                 ingestion, server>>

SpecConfidence == InitConfidence /\ [][Confidence]_vars

\* _find_resume_files over the listings os.listdir may return: the names
\* below, each present or not, in the order of the pool
NamePool ==
  <<NameCv, NameResume, NameNotes, NamePhoto,
    <<"n","o","t","e","s",".","P","D","F">>,
    <<"m","y","C","V",".","d","o","c","x">>,
    <<"r","e","s","u","m","e">>,
    <<"t","x","t">> >>
Listings ==
  {SelectSeq(NamePool, LAMBDA f : f \in present) :
     present \in SUBSET {NamePool[k] : k \in 1..Len(NamePool)}}

InitFind == \E listing \in Listings : Idle(Call([listing |-> listing]))

FindResumeFiles ==
  Return("_find_resume_files", _find_resume_files(last.arg.listing))

SpecFind == InitFind /\ [][FindResumeFiles]_vars

\* process_query on a ready agent, for a query of every category and every
\* answer of the Index with up to MaxResults records, short chunks and
\* chunks of LongChunkLen characters, all at distance 0 or all beyond One
LongChunkLen == 300
LongChunk    == [i \in 1..LongChunkLen |-> "x"]
ResponseQueries ==
  Queries \cup {<<"S","K","I","L","L","S">>, <<"d","e","g","r","e","e">>,
                <<"a","w","a","r","d","s">>, <<"b","u","i","l","t">>,
                <<"r","e","a","c","h">>}
ResponseAnswers ==
  {[i \in 1..Len(docs) |-> [document |-> docs[i],
                             metadata |-> Metadata(PathJoin(NameCv), i - 1, 0),
                             distance |-> d]] :
     docs \in UNION {[1..n -> {TextA[1], LongChunk}] : n \in 0..MaxResults},
     d \in {0, 15}}

InitResponse ==
  \E query \in ResponseQueries, input \in
       {[raises |-> TRUE, answer |-> << >>]} \cup
       {[raises |-> FALSE, answer |-> a] : a \in ResponseAnswers} :
    Idle(Call([query |-> query, input |-> input]))

SpecResponse == InitResponse /\ [][Confidence]_vars

\* get_skill_match for job descriptions of up to MaxJobWords words, followed
\* or not by MaxRepeat more words that match, and for an argument that is no
\* str, against one or two retrieved chunks
MaxJobWords == 2
MaxRepeat   == 11
WordPython  == <<"P","y","t","h","o","n">>
JobWords    == {WordPython, <<"A","W","S">>, <<"D","j","a","n","g","o">>, <<"w","i","t","h">>}
Copies(w, n) == [i \in 1..n |-> w]
SkillJobs ==
  {Join(ws \o Copies(Lower(WordPython), k), <<" ">>) :
     ws \in UNION {[1..n -> JobWords] : n \in 0..MaxJobWords},
     k \in {0, MaxRepeat}} \cup {JobPython, NotAString}

\* chunks of a resume: a skills line as resumes list it, and bare words
ChunkListed == <<"P","y","t","h","o","n",","," ","D","j","a","n","g","o",","," ","A","W","S">>
ChunkPlain  == <<"p","y","t","h","o","n"," ","a","w","s"," ","G","o">>
SkillAnswers ==
  {[i \in 1..Len(docs) |-> [document |-> docs[i],
                             metadata |-> Metadata(PathJoin(NameCv), i - 1, 0),
                             distance |-> 3]] :
     docs \in {<< >>, <<ChunkListed>>, <<ChunkPlain>>,
               <<ChunkListed, ChunkPlain>>}}

InitSkillMatch ==
  \E job \in SkillJobs, input \in
       {[raises |-> TRUE, answer |-> << >>]} \cup
       {[raises |-> FALSE, answer |-> a] : a \in SkillAnswers} :
    Idle(Call([job |-> job, input |-> input]))

SkillMatch ==
  /\ last.op = "call"
  /\ last' = [last EXCEPT
       !.op = "get_skill_match", !.searched = TRUE,
       !.failed = last.arg.input.raises,
       !.ret = get_skill_match(last.arg.job, last.arg.input)]
  /\ UNCHANGED <<dir, collection, dupPolicy, initialized, clock, steps,
                 ingestion, server>>

SpecSkillMatch == InitSkillMatch /\ [][SkillMatch]_vars

\* ------------------------------------------------------------------ claims
IsRun(l) == l.op \in {"load_resume_files", "initialize"}

\* the candidate files of the current directory
Candidates == LET files == _find_resume_files(Listing(dir))
              IN  {files[k] : k \in 1..Len(files)}

\* the texts stored under an id
TextsOf(coll, id) == {e.document : e \in {x \in coll : x.id = id}}

\* C1: a run of load_resume_files that follows a run which met no failure,
\* with no file written or removed in between, leaves the set of ids, the
\* text stored under each id and the number of entries as they were.
C1_IngestionIdempotent ==
  [][(IsRun(last') /\ last'.rerun /\ clock' = clock + 1) =>
       /\ Ids(collection') = Ids(collection)
       /\ \A id \in Ids(collection) :
            TextsOf(collection', id) = TextsOf(collection, id)
       /\ Cardinality(collection') = Cardinality(collection)]_vars

\* C1 witness: a second run over unchanged files, with chunks in the index
C1_Witness ==
  /\ last.op = "load_resume_files" /\ last.rerun /\ last.ret.value
  /\ Cardinality(collection) >= 2

\* C2: after a file was edited and ingestion ran again without failure, every
\* chunk id of that file maps to exactly one entry, which holds the text of
\* the file's new chunk with that index.
C2_ReingestionUpserts ==
  (IsRun(last) /\ last.clean) =>
    \A path \in Candidates :
      (Basename(path) \in last.changed) =>
        LET chunks == _split_into_chunks(_extract_content(dir[Basename(path)]),
                                         DefaultChunkSize)
        IN  \A i \in 0..(Len(chunks) - 1) :
              LET stored == {e \in collection : e.id = DocId(path, i)}
              IN  /\ Cardinality(stored) = 1
                  /\ \A e \in stored : e.document = chunks[i + 1]

\* C3: a run of ingestion after files were edited leaves every entry of every
\* file that was not edited as it was, text and metadata.
C3_OtherDocumentsUntouched ==
  [][(IsRun(last') /\ clock' = clock + 1) =>
       \A e \in collection :
         (e.metadata.source_file \notin last'.changed) =>
           {x \in collection' : x.id = e.id} = {e}]_vars

\* C3 witness: one file edited, the run stored a new chunk of it, and the
\* index holds an entry of another file from the run before
C3_Witness ==
  /\ IsRun(last) /\ Cardinality(last.changed) = 1
  /\ \E e \in collection :
       /\ e.metadata.source_file \in last.changed
       /\ e.metadata.processed_at = clock - 1
  /\ \E e \in collection :
       /\ e.metadata.source_file \notin last.changed
       /\ e.metadata.processed_at < clock - 1

\* C4: a call of initialize() on a facade that is ready runs no ingestion and
\* leaves the index as it was.
C4_InitializeIsNoOp ==
  [][(initialized /\ last'.op = "initialize" /\ last'.ready) =>
       (~last'.ingested /\ collection' = collection)]_vars

\* C5: process_query and get_skill_match called while the facade is not ready
\* return the system-error outcome with confidence 0.0 and do not search.
C5_NotReadyIsSystemError ==
  (last.op \in {"process_query", "get_skill_match"} /\ ~last.ready) =>
    /\ ~last.searched
    /\ DOMAIN last.ret = DOMAIN NotInitializedOutcome
    /\ last.ret = NotInitializedOutcome

\* C6: ready is terminal under initialize, process_query, get_skill_match and
\* get_agent_info; an initialize that returns false leaves the flag as it
\* was, and an initialize that returns true leaves the facade ready.
C6_Lifecycle ==
  [][/\ (initialized /\ last'.op \in {"initialize", "process_query",
                                      "get_skill_match", "get_agent_info"})
          => initialized'
     /\ (last'.op = "initialize" /\ clock' = clock + 1) =>
          IF last'.ret.value THEN initialized' ELSE initialized' = initialized
    ]_vars

\* C6 witness: a ready facade whose directory has lost its files is
\* initialized again and stays ready
C6_Witness ==
  /\ last.op = "initialize" /\ last.ready /\ ~last.ret.load /\ initialized

\* C7: initialize() returns true and leaves the facade ready when the load
\* found no documents; it returns false only if something raised in the run.
C7_NoDocumentsIsNotFailure ==
  (last.op = "initialize") =>
    /\ ~last.ret.load => (last.ret.value /\ initialized)
    /\ ~last.ret.value => (~last.clean /\ ~initialized)

\* C7 witness: initialize over a directory without supported files, with no
\* failure of the Index or of the listing
C7_Witness ==
  /\ last.op = "initialize" /\ ~last.ret.load /\ last.clean
  /\ ingestion.empty /\ ~last.ready /\ initialized

\* the no-information sentence expected for each query callers send
ExpectedNoInfo(query) ==
  IF query = QueryWorkSkills
  THEN "I don't have specific information about that work experience in the resume."
  ELSE "I don't have information about that topic in the resume."

IsNoInfoOutcome(l) ==
  /\ l.ret.response = Message(ExpectedNoInfo(l.arg))
  /\ l.ret.confidence = Zero

\* C8 as stated: once ingestion found no documents, the agent is ready and
\* every process_query returns the no-information message, confidence 0.0.
C8_NoDocumentsNoInformation ==
  /\ (last.op = "initialize" /\ ingestion.empty) => initialized
  /\ (last.op = "process_query" /\ last.ready /\ ingestion.empty) =>
       IsNoInfoOutcome(last)

\* C8 amended: once ingestion found no documents and the index holds no
\* entry, the agent is ready and every process_query returns the
\* no-information message of the query's category with confidence 0.0.
C8_NoDocumentsEmptyIndex ==
  /\ (last.op = "initialize" /\ ingestion.empty) => initialized
  /\ (last.op = "process_query" /\ last.ready /\ ingestion.empty
        /\ collection = {}) => IsNoInfoOutcome(last)

\* C8 witness: a query with a keyword, answered by a ready agent whose
\* ingestion found no documents and whose index is empty
C8_Witness ==
  /\ last.op = "process_query" /\ last.ready /\ ingestion.empty
  /\ collection = {} /\ last.arg = QueryWorkSkills

\* C9: a line that is not JSON, or JSON that is no request object, gets an
\* error response, and the loop ends only at end of input or when the client
\* is gone.
C9_MalformedLineAnswered ==
  /\ (server.pc = "write" /\ server.request.kind \in {"badjson", "nonobject"})
       => server.response.code # 0
  /\ (server.pc = "stopped") => server.cause \in {"eof", "disconnect"}

\* C10: whenever the loop is about to read, or has ended with the client
\* still there, every line taken in hand has exactly one response, in order.
C10_OneResponsePerLineInOrder ==
  (server.pc = "read" \/ (server.pc = "stopped" /\ server.cause # "disconnect"))
    => /\ Len(server.out) = server.requests
       /\ \A i \in 1..Len(server.out) : server.out[i].line = i

\* the outcome of the except branch of process_query
IsSystemError(ret) ==
  /\ "source" \in DOMAIN ret
  /\ ret.source = "system_error"
  /\ ret.confidence = Zero

\* C11: a process_query call on a ready agent in which the Index or the
\* Embedder raises returns the system-error outcome with confidence 0.0 and
\* leaves the stored entries as they were.
C11_IndexFailureIsSystemError ==
  [][(last'.op = "process_query" /\ last'.ready /\ last'.failed) =>
       (IsSystemError(last'.ret) /\ collection' = collection)]_vars

\* a call that ended in failure: the Index or the Embedder raised in it, or
\* its outcome is the one of a guard or of an except branch
IsFailure(l) ==
  \/ l.failed
  \/ "source" \in DOMAIN l.ret
  \/ "error" \in DOMAIN l.ret

\* C12: every failure outcome of process_query and get_skill_match is a fixed
\* sentence together with confidence 0.0, and carries no exception text.
C12_FailureIsPlainMessage ==
  (last.op \in {"process_query", "get_skill_match"} /\ IsFailure(last)) =>
    /\ "error" \notin DOMAIN last.ret
    /\ "confidence" \in DOMAIN last.ret
    /\ last.ret.confidence = Zero
    /\ \/ "response" \in DOMAIN last.ret /\ last.ret.response.context = << >>
       \/ "recommendations" \in DOMAIN last.ret

\* the words of the chunks, in order
RECURSIVE WordsOf(_)
WordsOf(chunks) ==
  IF chunks = << >> THEN << >>
  ELSE Split(chunks[1]) \o WordsOf(Tail(chunks))

\* C13: for a text of N words and a window W >= 1, _split_into_chunks
\* returns ceil(N/W) chunks, none of them empty, whose words in order are
\* the words of the text.
C13_ChunksCoverText ==
  (last.op = "_split_into_chunks") =>
    LET words  == Split(last.arg.content)
        N      == Len(words)
        W      == last.arg.chunk_size
        chunks == last.ret.value
    IN  /\ Len(chunks) = (N + W - 1) \div W
        /\ \A k \in 1..Len(chunks) : chunks[k] # << >>
        /\ WordsOf(chunks) = words
        /\ (N = 0) => chunks = << >>
        /\ (0 < N /\ N <= W) => Len(chunks) = 1

\* C13 witness: three words in windows of two, the last window short
C13_Witness ==
  /\ last.op = "_split_into_chunks"
  /\ Len(Split(last.arg.content)) = 3 /\ last.arg.chunk_size = 2
  /\ Len(last.ret.value) = 2

\* the files of the directory with a supported extension
SupportedFiles == {f \in FileNames : dir[f].present /\ HasSupportedExtension(f)}

\* C14: load_resume_files returns true when it processed at least one
\* candidate file, whatever the files yielded, and false when the directory
\* holds no supported file.
C14_LoadResult ==
  (last.op = "load_resume_files") =>
    /\ (last.processed > 0) => last.ret.value
    /\ (SupportedFiles = {}) => ~last.ret.value

\* C14 witness: a load over candidate files none of which yields a chunk
C14_Witness ==
  /\ last.op = "load_resume_files" /\ last.processed = 2 /\ last.ret.value
  /\ \A p \in Candidates : _extract_content(dir[Basename(p)]) = << >>
  /\ collection = {}

\* every chunk of the file is stored: its id holds the text of the chunk
AllChunksStored(path) ==
  LET chunks == _split_into_chunks(_extract_content(dir[Basename(path)]),
                                   DefaultChunkSize)
  IN  \A i \in 0..(Len(chunks) - 1) :
        \E e \in collection : e.id = DocId(path, i) /\ e.document = chunks[i + 1]

\* C15: when load_resume_files returns from a run in which some candidate
\* file failed (its extraction failed or was empty, or its indexing raised),
\* every other candidate file whose extraction succeeded has all of its
\* chunks stored in the index.
C15_FailureDoesNotAbortBatch ==
  (last.op = "load_resume_files" /\ last.skipped # {}) =>
    \A path \in Candidates :
      (path \notin last.skipped /\ _extract_content(dir[Basename(path)]) # << >>)
        => AllChunksStored(path)

\* the part of an id after its last underscore, and the part before it
LastUnderscore(id) ==
  CHOOSE k \in 1..Len(id) : id[k] = "_" /\ \A j \in (k + 1)..Len(id) : id[j] # "_"
IdPrefix == <<"r","e","s","u","m","e","_">>

\* C16: a chunk id is "resume_", the base name of the file, "_" and the
\* index of the chunk; two candidate files of a directory never share an id;
\* and when every file has returned, the writes of the files, in whatever
\* order they interleaved, have left the index the sequential loop leaves.
C16_DisjointIdsInterleave ==
  (last.op = "ingesting") =>
    LET files == _find_resume_files(Listing(dir)) IN
    /\ \A k \in 1..Len(files) : \A i \in 0..MaxSteps :
         LET id == DocId(files[k], i) IN
         /\ SubSeq(id, 1, Len(IdPrefix)) = IdPrefix
         /\ SubSeq(id, Len(IdPrefix) + 1, LastUnderscore(id) - 1) = Basename(files[k])
         /\ SubSeq(id, LastUnderscore(id) + 1, Len(id)) = IntToStr(i)
    /\ \A k, m \in 1..Len(files) : \A i, j \in 0..MaxSteps :
         (DocId(files[k], i) = DocId(files[m], j)) => (k = m /\ i = j)
    /\ (\A k \in DOMAIN last.arg.pos : last.arg.pos[k] = Done) =>
         collection = ProcessFiles(last.arg.start, {}, files, 1, dir, clock,
                                   last.arg.faults, dupPolicy).collection

\* C16 witness: two files have returned, the writes of one of them lying
\* around a write of the other
C16_Witness ==
  /\ last.op = "ingesting"
  /\ \A k \in DOMAIN last.arg.pos : last.arg.pos[k] = Done
  /\ Len(last.arg.order) = 3
  /\ last.arg.order[1] = last.arg.order[3]
  /\ last.arg.order[1] # last.arg.order[2]
  /\ Cardinality(collection) = 3

\* the categories in the order of their priority
CategoryOrder ==
  <<"experience", "skills", "education", "achievements", "projects", "contact">>

\* the keywords listed for a category
KeywordsOf(category) ==
  LET row == CHOOSE k \in 1..Len(query_keywords) :
               query_keywords[k].category = category
  IN  {query_keywords[row].keywords[j] :
         j \in 1..Len(query_keywords[row].keywords)}

\* a keyword of the category occurs in the lower-cased query
Matches(query, category) ==
  \E keyword \in KeywordsOf(category) : Contains(Lower(query), keyword)

\* C17: every query is classified as exactly one of the 7 categories: the
\* first of experience, skills, education, achievements, projects, contact
\* with a keyword occurring in the lower-cased query, and general when no
\* keyword occurs; the same query is always classified the same.
C17_ClassifyFirstMatch ==
  (last.op = "_classify_query") =>
    LET query == last.arg.query
        found == {k \in 1..Len(CategoryOrder) : Matches(query, CategoryOrder[k])}
    IN  /\ Cardinality(Categories) = 7
        /\ last.ret.value \in Categories
        /\ (found = {}) => last.ret.value = "general"
        /\ (found # {}) =>
             last.ret.value =
               CategoryOrder[CHOOSE k \in found : \A j \in found : k <= j]
        /\ last.ret.value = _classify_query(Lower(query))

\* C17 witness: a query with keywords of two categories, the one of lower
\* priority first in the text and the other inside a longer word, in capitals
C17_Witness ==
  /\ last.op = "_classify_query"
  /\ last.arg.query = Join(<<<<"S","K","I","L","L","S">>, <<"W","o","r","k","s","h","o","p">>>>, <<" ">>)
  /\ last.ret.value = "experience"

\* the relevances of the results of a search, in order
RelevancesOf(input) ==
  LET results == search_resume(input)
  IN  [i \in 1..Len(results) |-> results[i].relevance]

RECURSIVE Sum(_)
Sum(seq) == IF seq = << >> THEN 0 ELSE seq[1] + Sum(Tail(seq))

\* C18: the confidence of process_query is 0.0 for an empty result set and
\* otherwise the mean relevance of the first min(3, n) results; it never
\* exceeds 1.0 and, the relevances lying in [0,1], it lies in [0,1].
C18_ConfidenceIsMeanOfTop3 ==
  (last.op = "process_query" /\ last.ready /\ "input" \in DOMAIN last.arg) =>
    LET rel  == RelevancesOf(last.arg.input)
        n    == Min(3, Len(rel))
        conf == last.ret.confidence
    IN  /\ \A i \in 1..Len(rel) : 0 <= rel[i] /\ rel[i] <= One
        /\ conf.den > 0
        /\ (Len(rel) = 0) => conf.num = 0
        /\ (Len(rel) > 0) => conf.num * n = Sum(SubSeq(rel, 1, n)) * conf.den
        /\ 0 <= conf.num /\ conf.num <= One * conf.den

\* C18 witness: four results, the fourth of which would change the mean
C18_Witness ==
  /\ last.op = "process_query" /\ "input" \in DOMAIN last.arg
  /\ RelevancesOf(last.arg.input) = <<One, 7, 0, One>>
  /\ last.ret.confidence = [num |-> 17, den |-> 3]

\* a call of get_skill_match with a job description
IsSkillMatch == last.op = "get_skill_match" /\ last.arg.job # NotAString

\* the lower-cased whitespace tokens of the job description of the call
JobTokens == Split(Lower(last.arg.job))

\* the lower-cased whitespace tokens of the retrieved skills text
SkillsTokens ==
  LET results == search_resume(last.arg.input)
      text    == Join([i \in 1..Len(results) |-> results[i].content], <<" ">>)
      tokens  == Split(Lower(text))
  IN  {tokens[k] : k \in 1..Len(tokens)}

\* the job tokens longer than 3 characters found among the skills tokens,
\* in the order of the job description, duplicates kept
AllMatches ==
  SelectSeq(JobTokens, LAMBDA t : Len(t) > 3 /\ t \in SkillsTokens)

\* matching_skills is the first at most 10 of the matches
FirstTenMatches ==
  last.ret.matching_skills =
    SubSeq(AllMatches, 1, Min(10, Len(AllMatches)))

\* C19 as stated: matching_skills is the first at most 10 matches, and
\* match_percentage is 100 * matches / max(job tokens, 1), capped at 100.
C19_SkillMatchExact ==
  IsSkillMatch =>
    LET p   == last.ret.match_percentage
        den == Max(Len(JobTokens), 1)
    IN  /\ FirstTenMatches
        /\ p.num * den = Min(100 * Len(AllMatches), 100 * den) * p.den
        /\ 0 <= p.num /\ p.num <= 100 * p.den

\* C19 amended: matching_skills is the first at most 10 matches, and
\* match_percentage is 100 * matches / max(job tokens, 1), capped at 100
\* and rounded to one decimal; it lies in [0,100].
C19_SkillMatchRounded ==
  IsSkillMatch =>
    LET p     == last.ret.match_percentage
        den   == Max(Len(JobTokens), 1)
        exact == Min(100 * Len(AllMatches), 100 * den)
    IN  /\ FirstTenMatches
        /\ (p.num * 10) % p.den = 0
        /\ 20 * (p.num * den - exact * p.den) <= den * p.den
        /\ 20 * (exact * p.den - p.num * den) <= den * p.den
        /\ 0 <= p.num /\ p.num <= 100 * p.den

\* C19 witness: twelve job tokens, eleven of them matches: ten are returned
\* and the percentage, 91.666..., is returned as 91.7
C19_Witness ==
  /\ IsSkillMatch
  /\ Len(JobTokens) = 12 /\ Len(AllMatches) = 11
  /\ Len(last.ret.matching_skills) = 10
  /\ last.ret.match_percentage = [num |-> 917, den |-> 10]

\* C20: the job description "Python developer with Django experience"
\* against a retrieved skills chunk "Python, Django, AWS" gives
\* matching_skills with "python" and "django" in it.
C20_FindsListedSkills ==
  (/\ last.op = "get_skill_match"
   /\ last.arg.job = JobPython
   /\ \E i \in 1..Len(last.arg.input.answer) :
        last.arg.input.answer[i].document = ChunkListed) =>
    /\ \E k \in 1..Len(last.ret.matching_skills) :
         last.ret.matching_skills[k] = Lower(WordPython)
    /\ \E k \in 1..Len(last.ret.matching_skills) :
         last.ret.matching_skills[k] = <<"d","j","a","n","g","o">>

\* the entry belongs to a file the step ingested again
Reingested(e) ==
  /\ IsRun(last') /\ clock' = clock + 1 /\ last'.processed > 0
  /\ e.metadata.file_path \in Candidates

\* C21: no step (a run of ingestion, a query, a restart of the process, a
\* change of the data directory) removes an id from the index, and every
\* entry of a file the step did not ingest again stays as it was.
C21_EntriesPersist ==
  [][/\ Ids(collection) \subseteq Ids(collection')
     /\ \A e \in collection : ~Reingested(e) => e \in collection'
    ]_vars

\* C21 witness: a run has returned, and the index still holds the entries
\* an earlier run stored for a file that is no longer a candidate
C21_Witness ==
  /\ IsRun(last) /\ last.processed > 0
  /\ \E e \in collection :
       /\ e.metadata.file_path \notin Candidates
       /\ e.metadata.processed_at < clock - 1
  /\ \E e \in collection : e.metadata.file_path \in Candidates

\* the calls that only ask
IsQuery(l) == l.op \in {"process_query", "get_skill_match", "get_agent_info"}

\* the number of results a search over the index returns now
ResultsNow(failed) ==
  IF failed THEN 0 ELSE Min(5, Cardinality(collection))

\* the outcome in l tells of the index and the flag as they are when the
\* call starts: the flag the guard saw, the time of the call, and as many
\* results as a search returns now
FreshOutcome(l) ==
  /\ l.ready = initialized
  /\ (l.op = "process_query" /\ ~initialized) => l.ret = NotInitializedOutcome
  /\ (l.op = "process_query" /\ initialized) =>
       /\ l.ret.timestamp = clock
       /\ l.ret.source_chunks = ResultsNow(l.failed)
       /\ l.ret.query_type = _classify_query(Lower(l.arg))
  /\ (l.op = "get_skill_match") =>
       ("confidence" \in DOMAIN l.ret) = (ResultsNow(l.failed) > 0)
  /\ (l.op = "get_agent_info") => l.ret = get_agent_info(initialized, collection)

\* C22: process_query, get_skill_match and get_agent_info leave the index
\* and the initialized flag as they were, start no ingestion (ready or not),
\* and return an outcome that tells of the index and the flag as they are
\* when the call starts, not one kept from an earlier call.
C22_QueriesReadOnly ==
  [][IsQuery(last') =>
       /\ collection' = collection
       /\ initialized' = initialized
       /\ ingestion' = ingestion /\ clock' = clock /\ ~last'.ingested
       /\ FreshOutcome(last')
    ]_vars

\* C22 witness: a query put to an agent that is not ready, over an index
\* that holds chunks, has returned and the agent is still not ready
C22_Witness ==
  /\ last.op = "process_query" /\ ~last.ready /\ ~initialized
  /\ collection # {} /\ ingestion.ran

\* the number of retrieved chunks whose text goes into the context: the
\* first three at most
UsedChunks(input) ==
  IF input.raises THEN 0 ELSE Min(3, Len(input.answer))

\* C23: the number in the attribution note of the response and the
\* source_chunks field of the outcome both equal the number of retrieved
\* chunks whose text was concatenated into the context (at most 3).
C23_ReportedChunksAreUsed ==
  (last.op = "process_query" /\ last.ready /\ "input" \in DOMAIN last.arg) =>
    /\ last.ret.response.sections = UsedChunks(last.arg.input)
    /\ last.ret.source_chunks = UsedChunks(last.arg.input)

\* the category of a query: the first in priority with a keyword in it
CategoryOf(query) ==
  LET found == {k \in 1..Len(CategoryOrder) : Matches(query, CategoryOrder[k])}
  IN  IF found = {} THEN "general"
      ELSE CategoryOrder[CHOOSE k \in found : \A j \in found : k <= j]

\* the no-information sentences
NoInfoMessages == {_get_no_info_response(c) : c \in Categories}

\* the texts of the first min(3, n) retrieved records, joined by newlines
TopContext(answer) ==
  Join([i \in 1..Min(3, Len(answer)) |-> answer[i].document], <<"\n">>)

\* C24: when retrieval returns at least one result, whatever the relevances,
\* the response is not a no-information message: it is the template
\* sentence of the query's category followed by the context, the texts of
\* the first min(3, n) results in retrieval order joined by newlines and cut
\* to its first 800 characters.
C24_AlwaysAnswers ==
  (/\ last.op = "process_query" /\ last.ready /\ "input" \in DOMAIN last.arg
   /\ ~last.arg.input.raises /\ Len(last.arg.input.answer) >= 1) =>
    LET context == TopContext(last.arg.input.answer)
        response == last.ret.response
    IN  /\ response.text \notin NoInfoMessages
        /\ response.text = _get_response_template(CategoryOf(last.arg.query))
        /\ response.context = SubSeq(context, 1, Min(800, Len(context)))
        /\ response.context # << >>

\* C24 witness: four results of relevance 0 whose first three texts joined
\* are longer than 800 characters, answered under the skills template
C24_Witness ==
  /\ last.op = "process_query" /\ "input" \in DOMAIN last.arg
  /\ Len(last.arg.input.answer) = 4
  /\ \A i \in 1..4 : last.arg.input.answer[i].distance >= One
  /\ Len(TopContext(last.arg.input.answer)) > 800
  /\ Len(last.ret.response.context) = 800
  /\ last.ret.query_type = "skills"

\* C25: on a ready agent, a process_query whose retrieval returns no result
\* returns the no-information sentence of the query's category, the seven
\* sentences being distinct, with confidence 0.0 and source_chunks 0.
C25_NoResultsNoInformation ==
  (/\ last.op = "process_query" /\ last.ready /\ "input" \in DOMAIN last.arg
   /\ search_resume(last.arg.input) = << >>) =>
    /\ last.ret.response =
         Message(_get_no_info_response(CategoryOf(last.arg.query)))
    /\ \A c \in Categories \ {CategoryOf(last.arg.query)} :
         last.ret.response.text # _get_no_info_response(c)
    /\ Cardinality(NoInfoMessages) = 7
    /\ last.ret.confidence = Zero
    /\ last.ret.source_chunks = 0

\* C25 witness: a query about a degree, the Index answering with no record
C25_Witness ==
  /\ last.op = "process_query" /\ "input" \in DOMAIN last.arg
  /\ ~last.arg.input.raises /\ last.arg.input.answer = << >>
  /\ last.ret.query_type = "education"
  /\ last.ret.response.text =
       "I don't have information about that educational background in the resume."

\* the name ends in one of the supported extensions, whatever its case
IsSupportedName(f) ==
  \E ext \in {<<".","p","d","f">>, <<".","d","o","c","x">>,
               <<".","t","x","t">>, <<".","m","d">>} :
    /\ Len(f) >= Len(ext)
    /\ \A k \in 1..Len(ext) : LowerChar(f[Len(f) - Len(ext) + k]) = ext[k]

\* the lower-cased name has "resume" or "cv" in it
IsPreferredName(f) ==
  \/ Contains(Lower(f), <<"r","e","s","u","m","e">>)
  \/ Contains(Lower(f), <<"c","v">>)

\* C26: if some file with a supported extension has "resume" or "cv" in its
\* lower-cased name, the candidates are exactly those files; otherwise they
\* are exactly the files with a supported extension; a file with an
\* unsupported extension is never a candidate.
C26_CandidateSelection ==
  (last.op = "_find_resume_files") =>
    LET listing   == last.arg.listing
        names     == {listing[k] : k \in 1..Len(listing)}
        supported == {f \in names : IsSupportedName(f)}
        preferred == {f \in supported : IsPreferredName(f)}
        expected  == IF preferred # {} THEN preferred ELSE supported
        files     == last.ret.value
    IN  /\ {files[k] : k \in 1..Len(files)} = {PathJoin(f) : f \in expected}
        /\ Len(files) = Cardinality(expected)
        /\ \A k \in 1..Len(files) : IsSupportedName(Basename(files[k]))

\* C26 witness: a directory with two preferred files, one of them named in
\* capitals, a further supported file and a picture named cv
C26_Witness ==
  /\ last.op = "_find_resume_files"
  /\ last.arg.listing = <<NameCv, NameResume, NameNotes, NamePhoto>>
  /\ last.ret.value = <<PathJoin(NameCv), PathJoin(NameResume)>>

\* C27: in every state of the server its flag implies the flag of the
\* agent; and an "initialize" request handled with the server's flag set is
\* answered with the capabilities while the index, the clock of the runs and
\* the agent stay as they were.
C27_ServerFlag ==
  /\ [](server.initialized => initialized)
  /\ [][(/\ server.initialized /\ server.pc = "handle"
          /\ server.request.kind = "initialize") =>
          /\ server'.pc = "write"
          /\ server'.response =
               create_response(server.request.id, Capabilities, NoError)
          /\ server'.initialized
          /\ collection' = collection /\ clock' = clock /\ steps' = steps
          /\ ingestion' = ingestion /\ initialized' = initialized
          /\ last' = last
       ]_vars

\* C27 witness: two "initialize" requests were answered with the
\* capabilities, and ingestion ran once
C27_Witness ==
  /\ server.initialized /\ initialized
  /\ Len(server.out) = 2
  /\ \A i \in 1..2 : server.out[i].text = Capabilities.text
                        /\ server.out[i].code = 0
  /\ clock = 1 /\ collection # {}

====
